---------------------------- MODULE Spec2Model ----------------------------
(***************************************************************************)
(* A model of the djson decoder (a8m/djson): the Decoder cursor            *)
(* (decode.go), the package-level entry points (interface.go), the         *)
(* unquoting helpers and the error values.                                 *)
(*                                                                         *)
(* Bytes are the integers 0..255 and the input is a sequence of bytes.     *)
(* Go indexes from 0: At(i) is d.data[i].  One action is one basic block   *)
(* of a scanner: a loop iteration, or the code between two calls.  The     *)
(* recursion any -> array/object -> any is an explicit stack of frames.    *)
(***************************************************************************)
EXTENDS Integers, Sequences, FiniteSets, TLC

(***************************************************************************)
(* The character literals the scanners compare against.                    *)
(***************************************************************************)
Ch ==
  [ quote |-> 34, bslash |-> 92, slash |-> 47, apos |-> 39,
    minus |-> 45, plus |-> 43, dot |-> 46, comma |-> 44, colon |-> 58,
    zero |-> 48, one |-> 49, two |-> 50, four |-> 52, nine |-> 57,
    lbrack |-> 91, rbrack |-> 93, lbrace |-> 123, rbrace |-> 125,
    space |-> 32, tab |-> 9, lf |-> 10, cr |-> 13,
    a |-> 97, b |-> 98, e |-> 101, f |-> 102, l |-> 108, n |-> 110,
    r |-> 114, s |-> 115, t |-> 116, u |-> 117, x |-> 120,
    A |-> 65, D |-> 68, E |-> 69, F |-> 70, three |-> 51, eight |-> 56 ]

\* unicode.MaxASCII; utf8.RuneSelf is MaxASCII + 1
MaxASCII == 127

(***************************************************************************)
(* Bounds of the model.  An input is the concatenation of at most          *)
(* MaxTokens fragments, all drawn from one family of fragments.            *)
(***************************************************************************)
MaxTokens == 4

NumToks ==
  { <<Ch.minus>>, <<Ch.zero>>, <<Ch.one>>, <<Ch.dot>>, <<Ch.e>>, <<Ch.plus>>,
    <<Ch.lbrack>>, <<Ch.rbrack>> }

ArrToks ==
  { <<Ch.lbrack>>, <<Ch.rbrack>>, <<Ch.comma>>, <<Ch.space>>,
    <<Ch.n, Ch.u, Ch.l, Ch.l>>, <<Ch.lbrace, Ch.rbrace>>,
    <<Ch.lbrack, Ch.one, Ch.comma>> }

ObjToks ==
  { <<Ch.lbrace>>, <<Ch.rbrace>>, <<Ch.quote, Ch.b, Ch.quote>>,
    <<Ch.quote, Ch.a, Ch.quote, Ch.colon>>,
    <<Ch.comma>>, <<Ch.one>>, <<Ch.lf>>,
    <<Ch.lbrace, Ch.quote, Ch.a, Ch.quote, Ch.colon, Ch.two, Ch.comma>> }

LitToks ==
  { <<Ch.t>>, <<Ch.r>>, <<Ch.u>>, <<Ch.e>>, <<Ch.n>>, <<Ch.l>>,
    <<Ch.f, Ch.a>>, <<Ch.s>> }

StrToks ==
  { <<Ch.quote>>, <<Ch.bslash>>, <<Ch.u>>, <<Ch.n>>, <<Ch.zero>>,
    <<1>>, <<Ch.bslash, Ch.u, Ch.zero, Ch.zero, Ch.four>> }

\* objects with equal and with different keys
KeyToks ==
  { <<Ch.lbrace>>, <<Ch.rbrace>>, <<Ch.lbrace, Ch.rbrace>>,
    <<Ch.quote, Ch.a, Ch.quote, Ch.colon>>, <<Ch.quote, Ch.b, Ch.quote, Ch.colon>>,
    <<Ch.lbrace, Ch.quote, Ch.a, Ch.quote, Ch.colon, Ch.two, Ch.comma>> }

\* strings with \u escapes of surrogates: \uD834 (high), \uDD1E (low), and
\* with the start of an escape, \uD
SurToks ==
  { <<Ch.quote>>, <<Ch.x>>,
    <<Ch.bslash, Ch.u, Ch.D, Ch.eight, Ch.three, Ch.four>>,
    <<Ch.bslash, Ch.u, Ch.D, Ch.D, Ch.one, Ch.E>>,
    <<Ch.bslash, Ch.u, Ch.D>> }

\* strings with bytes over 0x7F: 0xC3 0xA9 is U+00E9, 0xC2 alone is a
\* truncated sequence, 0xFF starts none, 0xED 0xA0 0x80 encodes U+D800
UtfToks ==
  { <<Ch.quote>>, <<195>>, <<169>>, <<194>>, <<255>>, <<237, 160, 128>> }

Toks ==
  [ num |-> NumToks, arr |-> ArrToks, obj |-> ObjToks, lit |-> LitToks,
    str |-> StrToks, key |-> KeyToks, sur |-> SurToks, utf |-> UtfToks ]

Families == DOMAIN Toks

RECURSIVE Flatten(_)
Flatten(ts) == IF ts = << >> THEN << >> ELSE Head(ts) \o Flatten(Tail(ts))

TokSeqs(F) == UNION { [1..k -> F] : k \in 0..MaxTokens }

InputsOf(F) == { Flatten(ts) : ts \in TokSeqs(F) }

Inputs == [f \in Families |-> InputsOf(Toks[f])]

(***************************************************************************)
(* Decoded values: Go's interface{} holding nil, bool, float64, string,    *)
(* []interface{} or map[string]interface{}.  A float64 is kept as the      *)
(* decimal m * 10^e with m free of trailing zeros (rounding to 53 bits     *)
(* and the float64 range are not modelled).                                *)
(***************************************************************************)
Nil == [t |-> "nil"]
NilArray == [t |-> "nilarray"]
NilMap == [t |-> "nilmap"]
VBool(b) == [t |-> "bool", b |-> b]
VStr(s) == [t |-> "str", s |-> s]
\* a variant in which an array without elements is the nil slice
VArrNil(a) == IF a = << >> THEN NilArray ELSE [t |-> "arr", a |-> a]

VArr(a) == [t |-> "arr", a |-> a]
VObj(o) == [t |-> "obj", o |-> o]

RECURSIVE Norm(_, _)
Norm(m, e) ==
  IF m = 0 THEN [t |-> "num", m |-> 0, e |-> 0]
  ELSE IF m % 10 = 0 THEN Norm(m \div 10, e + 1)
  ELSE [t |-> "num", m |-> m, e |-> e]

Neg(v) == [v EXCEPT !.m = 0 - v.m]

EmptyMap == [k \in {} |-> Nil]

\* a variant that keeps the value a key already has
MapSetFirst(o, k, v) == [q \in DOMAIN o \cup {k} |-> IF q \in DOMAIN o THEN o[q] ELSE v]

MapSet(o, k, v) == [q \in DOMAIN o \cup {k} |-> IF q = k THEN v ELSE o[q]]

(***************************************************************************)
(* Errors.  The message of a SyntaxError built by Decoder.error is         *)
(* "invalid character " + quoteChar(c) + " " + context: it is kept as the  *)
(* pair (c, ctx); quoteChar is one-to-one on bytes.                        *)
(***************************************************************************)
NoErr == [kind |-> "none"]
ErrUnexpectedEOF == [kind |-> "eof", off |-> -1]
ErrInvalidHexEscape == [kind |-> "hexescape", off |-> -1]
ErrStringEscape == [kind |-> "strescape"]
NumError == [kind |-> "numerror"]
SyntaxError(c, ctx, off) == [kind |-> "syntax", c |-> c, ctx |-> ctx, off |-> off]

VARIABLES
  family,     \* the family of fragments the input is made of
  expected,   \* what the JSON grammar makes of the input; no action reads it
  data,       \* Decoder.data: the input bytes
  end,        \* Decoder.end
  pos,        \* Decoder.pos
  usestring,  \* Decoder.usestring
  entry,      \* the entry point that was called, "none" before the call
  status,     \* "ready", "running", "returned" or "panic"
  pc,         \* the block of the running scanner
  stack,      \* the frames of the callers, innermost first
  loc,        \* the locals of the running string or number scanner
  ret,        \* what the last callee returned: (val, err)
  result,     \* what the entry point returned: (val, err)
  prev        \* the call made before on the same input, << >> if none

vars == <<family, expected, prev, data, end, pos, usestring, entry, status, pc, stack, loc, ret, result>>

At(i) == data[i + 1]

IsDigit(c) == Ch.zero <= c /\ c <= Ch.nine

IsSpace(c) == c \in {Ch.space, Ch.tab, Ch.lf, Ch.cr}

NoLoc == [start |-> 0, unquote |-> FALSE, n |-> 0, c |-> 0, isFloat |-> FALSE, neg |-> FALSE]

NoRet == [val |-> Nil, err |-> NoErr]

Ret(v, e) == [val |-> v, err |-> e]

(***************************************************************************)
(* Cursor primitives (decode.go: next, skipSpaces, error).                 *)
(***************************************************************************)

\* d.data[p] faults (index out of range) unless 0 <= p < len(d.data)
InRange(p) == 0 <= p /\ p < Len(data)

\* a variant that reads the byte under the cursor and leaves the cursor there
nextInPlace(p) == [pos |-> p, c |-> IF p < end THEN At(p) ELSE 0]

\* Decoder.next: d.pos++, then the byte there, or 0 at or past d.end
next(p) == [pos |-> p + 1, c |-> IF p + 1 < end THEN At(p + 1) ELSE 0]

\* Decoder.skipSpaces, the position it stops at; -1 when the read of
\* d.data[d.pos] faults (d.pos is neither d.end nor an index of d.data)
RECURSIVE SkipPos(_)
SkipPos(p) ==
  IF p = end THEN p
  ELSE IF ~InRange(p) THEN -1
  ELSE IF IsSpace(At(p)) THEN SkipPos(p + 1)
  ELSE p

\* Decoder.skipSpaces, the byte it returns once it stopped at p
SkipChar(p) == IF p = end THEN 0 ELSE At(p)

\* Decoder.error with d.pos = p
DError(c, ctx, p) ==
  IF p < end THEN SyntaxError(c, ctx, p + 1) ELSE ErrUnexpectedEOF

(***************************************************************************)
(* State updates shared by the actions.                                    *)
(***************************************************************************)
Step(p, k, st, l, r) ==
  /\ pos' = p
  /\ pc' = k
  /\ stack' = st
  /\ loc' = l
  /\ ret' = r
  /\ status' = "running"
  /\ UNCHANGED <<family, expected, prev, data, end, usestring, entry, result>>

\* a Go run-time panic (index out of range, slice bounds out of range)
Panic(p) ==
  /\ pos' = p
  /\ pc' = "panic"
  /\ status' = "panic"
  /\ UNCHANGED <<family, expected, prev, data, end, usestring, entry, stack, loc, ret, result>>

\* the running function returns (v, e) to its caller with d.pos = p
Return(p, st, v, e) == Step(p, "return", st, NoLoc, Ret(v, e))

Frame(fn, arr, obj, k, stt) == [fn |-> fn, array |-> arr, obj |-> obj, k |-> k, st |-> stt]

(***************************************************************************)
(* AllocString and the entry points (NewDecoder is Init, further down).    *)
(***************************************************************************)
AllocString ==
  /\ status = "ready"
  /\ ~usestring
  /\ usestring' = TRUE
  /\ UNCHANGED <<family, expected, prev, data, end, pos, entry, status, pc, stack, loc, ret, result>>

\* the families of inputs each entry point is exercised on
EntryFamilies(e) ==
  CASE e = "Decode" -> Families
    [] e \in {"DecodeObject", "DecodeArray"} -> {"arr", "obj"}
    [] e = "djson.DecodeObject" -> {"key"}
    [] e = "djson.DecodeArray" -> {"arr"}
    [] e = "DecodeString" -> {"str"}
    [] e = "DecodeNumber" -> {"num"}

Enter(e, p, k, l) ==
  /\ entry' = e
  /\ pos' = p
  /\ pc' = k
  /\ loc' = l
  /\ status' = "running"
  /\ UNCHANGED <<family, expected, prev, data, end, usestring, stack, ret, result>>

\* a variant that rewinds the Decoder when the call is over
FinishRewound(p, v, e) ==
  /\ pos' = 0
  /\ pc' = "done"
  /\ status' = "returned"
  /\ result' = Ret(v, e)

Finish(p, v, e) ==
  /\ pos' = p
  /\ pc' = "done"
  /\ status' = "returned"
  /\ result' = Ret(v, e)

CallDecode ==
  /\ status = "ready"
  /\ family \in EntryFamilies("Decode")
  /\ Enter("Decode", pos, "any", NoLoc)

\* DecodeObject / DecodeArray up to the call of d.object() / d.array()
CallComposite(e, open, ctx, k, nil) ==
  /\ status = "ready"
  /\ family \in EntryFamilies(e)
  /\ LET p == SkipPos(pos)
         c == SkipChar(p)
     IN IF p = -1
        THEN /\ entry' = e
             /\ pc' = "panic"
             /\ status' = "panic"
             /\ UNCHANGED <<family, expected, prev, data, end, pos, usestring, stack, loc,
                            ret, result>>
        ELSE IF c # open
        THEN /\ entry' = e
             /\ Finish(p, nil, DError(c, ctx, p))
             /\ UNCHANGED <<family, expected, prev, data, end, usestring, stack, loc, ret>>
        ELSE Enter(e, p, k, NoLoc)

CallDecodeObject ==
  CallComposite("DecodeObject", Ch.lbrace, "looking for beginning of object", "object", NilMap)

CallDecodeArray ==
  CallComposite("DecodeArray", Ch.lbrack, "looking for beginning of array", "array", NilArray)

\* the decoder newDecoder(data) made for one call of a package-level
\* function: no AllocString, no call before
Fresh == ~usestring /\ prev = << >>

\* the package-level DecodeObject / DecodeArray: a fresh decoder,
\* skipSpaces, then d.object() / d.array() on whatever byte is there
CallPackageComposite(e, k) ==
  /\ status = "ready"
  /\ Fresh
  /\ family \in EntryFamilies(e)
  /\ Enter(e, SkipPos(pos), k, NoLoc)

CallPackageDecodeObject == CallPackageComposite("djson.DecodeObject", "object")

CallPackageDecodeArray == CallPackageComposite("djson.DecodeArray", "array")

\* the package-level DecodeString: a fresh decoder, skipSpaces, d.string()
CallDecodeString ==
  /\ status = "ready"
  /\ Fresh
  /\ family \in EntryFamilies("DecodeString")
  /\ Enter("DecodeString", SkipPos(pos), "string", NoLoc)

\* the package-level DecodeNumber: a fresh decoder, d.number(c == '-')
CallDecodeNumber ==
  /\ status = "ready"
  /\ Fresh
  /\ family \in EntryFamilies("DecodeNumber")
  /\ LET p == SkipPos(pos)
     IN Enter("DecodeNumber", p, "number", [NoLoc EXCEPT !.neg = (SkipChar(p) = Ch.minus)])

\* the value an entry point returns beside an error
NilOf(e) ==
  CASE e = "Decode" -> Nil
    [] e \in {"DecodeObject", "djson.DecodeObject"} -> NilMap
    [] e \in {"DecodeArray", "djson.DecodeArray"} -> NilArray
    [] e = "DecodeString" -> VStr(<< >>)
    [] e = "DecodeNumber" -> Norm(0, 0)

\* a variant that hands on the value the callee held when it failed
ErrValuePartial(e, v) == v

\* what an entry point returns beside the error of its callee
ErrValue(e, v) == NilOf(e)

\* a variant that locates the trailing byte by its index from 0
TrailingErrorAtIndex(c, p) == SyntaxError(c, "after top-level value", p)

\* the check for bytes after the top-level value, with skipSpaces stopped at p
TrailingError(c, p) == DError(c, "after top-level value", p)

\* the tail of every entry point, after d.any() / d.object() / ... returned
EntryReturn ==
  /\ status = "running"
  /\ pc = "return"
  /\ stack = << >>
  /\ IF ret.err # NoErr
     THEN /\ Finish(pos, ErrValue(entry, ret.val), ret.err)
          /\ UNCHANGED <<family, expected, prev, data, end, usestring, entry, stack, loc, ret>>
     ELSE LET p == SkipPos(pos)
          IN IF p = -1
             THEN Panic(pos)
             ELSE /\ IF p < end
                     THEN Finish(p, NilOf(entry), TrailingError(SkipChar(p), p))
                     ELSE Finish(p, ret.val, NoErr)
                  /\ UNCHANGED <<family, expected, prev, data, end, usestring, entry, stack, loc, ret>>

(***************************************************************************)
(* unicode/utf8 and unicode/utf16 as unquoteBytes uses them.               *)
(***************************************************************************)
\* unicode.ReplacementChar, utf8.RuneError: U+FFFD
RuneError == 65533

\* s[i:j], indices from 0
Sub(s, i, j) == SubSeq(s, i + 1, j)

\* a continuation byte 0x80..0xBF
IsCont(b) == 128 <= b /\ b <= 191

\* a variant that takes every byte for a rune of its own
DecodeRuneByte(p) == [r |-> p[1], size |-> 1]

\* utf8.DecodeRune(p): the rune and the number of bytes it takes
DecodeRune(p) ==
  LET n == Len(p)
      p0 == p[1]
      \* utf8's table "first": the length of the sequence p0 starts, 0 if none
      sz == IF p0 < 128 THEN 1
            ELSE IF p0 < 194 THEN 0
            ELSE IF p0 <= 223 THEN 2
            ELSE IF p0 <= 239 THEN 3
            ELSE IF p0 <= 244 THEN 4
            ELSE 0
      \* utf8's acceptRanges: the bounds on the second byte
      lo == IF p0 = 224 THEN 160 ELSE IF p0 = 240 THEN 144 ELSE 128
      hi == IF p0 = 237 THEN 159 ELSE IF p0 = 244 THEN 143 ELSE 191
      bad == [r |-> RuneError, size |-> 1]
  IN IF n < 1 THEN [r |-> RuneError, size |-> 0]
     ELSE IF sz = 1 THEN [r |-> p0, size |-> 1]
     ELSE IF sz = 0 \/ n < sz THEN bad
     ELSE IF p[2] < lo \/ hi < p[2] THEN bad
     ELSE IF sz = 2 THEN [r |-> (p0 % 32) * 64 + (p[2] % 64), size |-> 2]
     ELSE IF ~IsCont(p[3]) THEN bad
     ELSE IF sz = 3
       THEN [r |-> (p0 % 16) * 4096 + (p[2] % 64) * 64 + (p[3] % 64), size |-> 3]
     ELSE IF ~IsCont(p[4]) THEN bad
     ELSE [r |-> (p0 % 8) * 262144 + (p[2] % 64) * 4096 + (p[3] % 64) * 64 + (p[4] % 64),
           size |-> 4]

\* utf16.IsSurrogate
IsSurrogate(r) == 55296 <= r /\ r < 57344

\* utf8.EncodeRune: the bytes written
EncodeRune(r) ==
  IF 0 <= r /\ r <= MaxASCII THEN <<r>>
  ELSE IF 0 <= r /\ r <= 2047 THEN <<192 + (r \div 64), 128 + (r % 64)>>
  ELSE IF r < 0 \/ r > 1114111 \/ IsSurrogate(r) THEN <<239, 191, 189>>
  ELSE IF r <= 65535
    THEN <<224 + (r \div 4096), 128 + ((r \div 64) % 64), 128 + (r % 64)>>
  ELSE <<240 + (r \div 262144), 128 + ((r \div 4096) % 64),
         128 + ((r \div 64) % 64), 128 + (r % 64)>>

\* a variant that combines any two units
DecodeRune16Any(r1, r2) == (r1 - 55296) * 1024 + (r2 - 56320) + 65536

\* utf16.DecodeRune
DecodeRune16(r1, r2) ==
  IF 55296 <= r1 /\ r1 < 56320 /\ 56320 <= r2 /\ r2 < 57344
  THEN (r1 - 55296) * 1024 + (r2 - 56320) + 65536
  ELSE RuneError

(***************************************************************************)
(* getu4 and unquoteBytes.                                                 *)
(***************************************************************************)
\* the value of a hexadecimal digit, -1 for any other byte
HexVal(c) ==
  IF IsDigit(c) THEN c - Ch.zero
  ELSE IF Ch.A <= c /\ c <= Ch.F THEN c - Ch.A + 10
  ELSE IF Ch.a <= c /\ c <= Ch.f THEN c - Ch.a + 10
  ELSE -1

getu4(s) ==
  IF Len(s) < 6 \/ s[1] # Ch.bslash \/ s[2] # Ch.u THEN -1
  ELSE IF \E i \in 3..6 : HexVal(s[i]) = -1 THEN -1
  ELSE HexVal(s[3]) * 4096 + HexVal(s[4]) * 256 + HexVal(s[5]) * 16 + HexVal(s[6])

\* the first loop of unquoteBytes: the index of the first unusual byte
RECURSIVE UnusualAt(_, _)
UnusualFrom(s, r) ==
  IF r >= Len(s) THEN r
  ELSE LET c == s[r + 1]
       IN IF c = Ch.bslash \/ c = Ch.quote \/ c < Ch.space THEN r
          ELSE IF c <= MaxASCII THEN UnusualAt(s, r + 1)
          ELSE LET d == DecodeRune(Sub(s, r, Len(s)))
               IN IF d.r = RuneError /\ d.size = 1 THEN r
                  ELSE UnusualAt(s, r + d.size)

\* the loop with its variable as a value, computed once for each iteration
UnusualAt(s, r0) == CHOOSE x \in { UnusualFrom(s, r) : r \in {r0} } : TRUE

\* a variant that takes the letter of an escape for the byte it stands for
EscapeByteLetter(c) == c

\* the byte a one-letter escape stands for, -1 when it is no escape
EscapeByte(c) ==
  CASE c \in {Ch.quote, Ch.bslash, Ch.slash, Ch.apos} -> c
    [] c = Ch.b -> 8
    [] c = Ch.f -> 12
    [] c = Ch.n -> 10
    [] c = Ch.r -> 13
    [] c = Ch.t -> 9
    [] OTHER -> -1

UnquoteFail == [ok |-> FALSE, t |-> << >>]

\* the second loop of unquoteBytes, reading at r with b[0:w] = out
RECURSIVE UnquoteFrom(_, _, _)
UnquoteStep(s, r, out) ==
  IF r >= Len(s) THEN [ok |-> TRUE, t |-> out]
  ELSE LET c == s[r + 1]
       IN IF c = Ch.bslash
          THEN IF r + 1 >= Len(s) THEN UnquoteFail
               ELSE IF s[r + 2] = Ch.u
                 THEN LET rr == getu4(Sub(s, r, Len(s)))
                          rr1 == getu4(Sub(s, r + 6, Len(s)))
                          dec == DecodeRune16(rr, rr1)
                      IN IF rr < 0 THEN UnquoteFail
                         ELSE IF IsSurrogate(rr) /\ dec # RuneError
                           THEN UnquoteFrom(s, r + 12, out \o EncodeRune(dec))
                         ELSE IF IsSurrogate(rr)
                           THEN UnquoteFrom(s, r + 6, out \o EncodeRune(RuneError))
                         ELSE UnquoteFrom(s, r + 6, out \o EncodeRune(rr))
               ELSE IF EscapeByte(s[r + 2]) = -1 THEN UnquoteFail
               ELSE UnquoteFrom(s, r + 2, Append(out, EscapeByte(s[r + 2])))
          ELSE IF c = Ch.quote \/ c < Ch.space THEN UnquoteFail
          ELSE IF c <= MaxASCII THEN UnquoteFrom(s, r + 1, Append(out, c))
          ELSE LET d == DecodeRune(Sub(s, r, Len(s)))
               IN UnquoteFrom(s, r + d.size, out \o EncodeRune(d.r))

\* the loop with its variables as values, computed once for each iteration
UnquoteFrom(s, r0, out0) ==
  CHOOSE x \in { UnquoteStep(s, r, out) : r \in {r0}, out \in {out0} } : TRUE

unquoteBytes(s) ==
  IF Len(s) = 0 THEN [ok |-> TRUE, t |-> << >>]
  ELSE LET r == UnusualAt(s, 0)
       IN IF r = Len(s) THEN [ok |-> TRUE, t |-> s]
          ELSE UnquoteFrom(s, r, Sub(s, 0, r))

(***************************************************************************)
(* The value dispatcher (Decoder.any) and its literal matcher.             *)
(***************************************************************************)
\* the byte the literal's error names: any reports d.data[d.pos], the byte
\* right after the first letter
LiteralErrByte(q, rest) == At(q)

\* case 'f', 't', 'n' of any, with the first letter at p: rest are the bytes
\* expected after it
Literal(p, rest, v, ctx) ==
  LET q == p + 1
  IN IF end - q < Len(rest) THEN [pos |-> q, val |-> Nil, err |-> ErrUnexpectedEOF]
     ELSE IF \A i \in 1..Len(rest) : At(q + i - 1) = rest[i]
       THEN [pos |-> q + Len(rest), val |-> v, err |-> NoErr]
     ELSE [pos |-> q, val |-> Nil, err |-> DError(LiteralErrByte(q, rest), ctx, q)]

\* a variant that reports the end of the input as a byte of its own
ValueStartErrorAtEnd(c, p) == SyntaxError(c, "looking for beginning of value", p + 1)

\* the default case of any
ValueStartError(c, p) == DError(c, "looking for beginning of value", p)

any ==
  /\ status = "running"
  /\ pc = "any"
  /\ LET p == SkipPos(pos)
         c == SkipChar(p)
     IN IF p = -1 THEN Panic(pos)
        ELSE IF c = Ch.quote THEN Step(p, "string", stack, NoLoc, NoRet)
        ELSE IF IsDigit(c) THEN Step(p, "number", stack, NoLoc, NoRet)
        ELSE IF c = Ch.minus
          THEN Step(p, "number", stack, [NoLoc EXCEPT !.neg = TRUE], NoRet)
        ELSE IF c \in {Ch.f, Ch.t, Ch.n}
          THEN LET m == CASE c = Ch.f -> Literal(p, <<Ch.a, Ch.l, Ch.s, Ch.e>>,
                                                VBool(FALSE), "in literal false")
                          [] c = Ch.t -> Literal(p, <<Ch.r, Ch.u, Ch.e>>,
                                                VBool(TRUE), "in literal true")
                          [] c = Ch.n -> Literal(p, <<Ch.u, Ch.l, Ch.l>>,
                                                Nil, "in literal null")
               IN Return(m.pos, stack, m.val, m.err)
        ELSE IF c = Ch.lbrack THEN Step(p, "array", stack, NoLoc, NoRet)
        ELSE IF c = Ch.lbrace THEN Step(p, "object", stack, NoLoc, NoRet)
        ELSE Return(p, stack, Nil, ValueStartError(c, p))

(***************************************************************************)
(* The string scanner (Decoder.string).                                    *)
(***************************************************************************)
\* d.pos++ past the opening quote; start = d.pos
StringBegin ==
  /\ status = "running"
  /\ pc = "string"
  /\ Step(pos + 1, "scan", stack, [NoLoc EXCEPT !.start = pos + 1], NoRet)

\* a variant that lets any letter but 'u' follow a backslash
IsEscapeCharAny(c) == c # Ch.u

IsEscapeChar(c) ==
  c \in {Ch.b, Ch.f, Ch.n, Ch.r, Ch.t, Ch.bslash, Ch.slash, Ch.quote}

\* one iteration of the loop at label scan
StringScan ==
  /\ status = "running"
  /\ pc = "scan"
  /\ IF pos >= end THEN Return(pos, stack, VStr(<< >>), ErrUnexpectedEOF)
     ELSE LET c == At(pos)
          IN IF c = Ch.quote
             THEN LET raw == Sub(data, loc.start, pos)
                      u == unquoteBytes(raw)
                  IN IF loc.unquote /\ ~u.ok
                     THEN Return(pos, stack, VStr(<< >>), ErrStringEscape)
                     ELSE Return(pos + 1, stack,
                                 VStr(IF loc.unquote THEN u.t ELSE raw), NoErr)
             ELSE IF c = Ch.bslash
               THEN IF ~InRange(pos + 1) THEN Panic(pos + 1)
                    ELSE LET c2 == At(pos + 1)
                             l2 == [loc EXCEPT !.unquote = TRUE]
                         IN IF c2 = Ch.u THEN Step(pos + 1, "escape_u", stack, l2, NoRet)
                            ELSE IF IsEscapeChar(c2) THEN Step(pos + 2, "scan", stack, l2, NoRet)
                            ELSE Return(pos + 1, stack, VStr(<< >>),
                                        DError(c2, "in string escape code", pos + 1))
             ELSE IF c < Ch.space
               THEN Return(pos, stack, VStr(<< >>), DError(c, "in string literal", pos))
             ELSE Step(pos + 1, "scan", stack,
                       [loc EXCEPT !.unquote = loc.unquote \/ c > MaxASCII], NoRet)

IsHex(c) == HexVal(c) # -1

\* the block at label escape_u, entered with d.pos at the 'u': the loop
\* looks at d.data[d.pos+i] for i = 0, 1, 2 and then skips 3 bytes
RECURSIVE HexLoop(_, _)
HexLoop(p, i) ==
  IF i = 3 THEN [k |-> "ok"]
  ELSE IF ~(p < end) THEN [k |-> "err", err |-> ErrInvalidHexEscape]
  ELSE IF ~InRange(p + i) THEN [k |-> "panic"]
  ELSE IF IsHex(At(p + i)) THEN HexLoop(p, i + 1)
  ELSE [k |-> "err",
        err |-> DError(At(p + i), "in \\u hexadecimal character escape", p)]

StringEscapeU ==
  /\ status = "running"
  /\ pc = "escape_u"
  /\ LET p == pos + 1
         h == HexLoop(p, 0)
     IN CASE h.k = "panic" -> Panic(p)
          [] h.k = "err" -> Return(p, stack, VStr(<< >>), h.err)
          [] h.k = "ok" -> Step(p + 3, "scan", stack, loc, NoRet)

(***************************************************************************)
(* strconv.ParseFloat on the text the number scanner hands it: decimal     *)
(* digits with an optional '.', at least one digit, an optional exponent   *)
(* e|E [+|-] digits+, and nothing after it.  (The text starts with a       *)
(* digit, '.', 'e' or 'E', so the sign, hexadecimal, underscore and        *)
(* inf/nan forms of ParseFloat cannot occur.)                              *)
(***************************************************************************)
\* the index (from 1) of the first byte at or after i that is no digit
RECURSIVE DigitsEnd(_, _)
DigitsEnd(s, i) ==
  IF i <= Len(s) /\ IsDigit(s[i]) THEN DigitsEnd(s, i + 1) ELSE i

\* the number the digits s[i..j-1] spell, continuing from acc
RECURSIVE DigitsVal(_, _, _, _)
DigitsVal(s, i, j, acc) ==
  IF i >= j THEN acc ELSE DigitsVal(s, i + 1, j, 10 * acc + (s[i] - Ch.zero))

\* ParseFloat, once the text is cut at i2 (end of the integer digits), i3
\* (end of the fraction), i4 (start of the exponent's digits) and i5 (their
\* end); nfrac digits follow the '.', and the exponent is negative iff eneg
FloatOf(s, i2, i3, i4, i5, nfrac, eneg) ==
  LET hasExp == i4 > i3
      e0 == DigitsVal(s, i4, i5, 0)
      mant == DigitsVal(s, i2 + 1, i3, DigitsVal(s, 1, i2, 0))
  IN IF (i2 - 1) + nfrac > 0 /\ (hasExp => i5 > i4) /\ i5 = Len(s) + 1
     THEN [ok |-> TRUE, v |-> Norm(mant, (IF eneg THEN 0 - e0 ELSE e0) - nfrac)]
     ELSE [ok |-> FALSE, v |-> Norm(0, 0)]

\* the exponent, if one starts at i3
FloatExp(s, i2, i3, nfrac) ==
  IF i3 <= Len(s) /\ s[i3] \in {Ch.e, Ch.E}
  THEN IF i3 + 1 <= Len(s) /\ s[i3 + 1] \in {Ch.plus, Ch.minus}
       THEN FloatOf(s, i2, i3, i3 + 2, DigitsEnd(s, i3 + 2), nfrac, s[i3 + 1] = Ch.minus)
       ELSE FloatOf(s, i2, i3, i3 + 1, DigitsEnd(s, i3 + 1), nfrac, FALSE)
  ELSE FloatOf(s, i2, i3, i3, i3, nfrac, FALSE)

\* the fraction, if a '.' stands at i2
FloatFrac(s, i2) ==
  IF i2 <= Len(s) /\ s[i2] = Ch.dot
  THEN FloatExp(s, i2, DigitsEnd(s, i2 + 1), DigitsEnd(s, i2 + 1) - (i2 + 1))
  ELSE FloatExp(s, i2, i2, 0)

ParseFloat(s) == FloatFrac(s, DigitsEnd(s, 1))

(***************************************************************************)
(* The number scanner (Decoder.number).  Each operator below is the code   *)
(* from one point of the function to the next loop head or return; it      *)
(* yields the set of configurations the code can be in then.               *)
(***************************************************************************)
\* bytes that may lie in the slice's capacity beyond its length
HiddenBytes == {0, Ch.one}

Cfg(p, k, l, v, e) == [p |-> p, k |-> k, l |-> l, v |-> v, e |-> e]

\* the sign number() gives its result
Signed(neg, v) == IF neg THEN Neg(v) ELSE v

\* what number() returns once ParseFloat gave f
FloatResult(p, l, f) ==
  IF f.ok THEN Cfg(p, "return", l, Signed(l.neg, f.v), NoErr)
  ELSE Cfg(p, "return", l, Norm(0, 0), NumError)

\* the texts data[start:pos] can be: a []byte is sliced up to its capacity
\* and a string up to its length; none when the slice expression faults
Slices(start, p) ==
  IF p <= Len(data) THEN { Sub(data, start, p) }
  ELSE IF usestring THEN { }
  ELSE { Sub(data, start, Len(data)) \o <<h>> : h \in HiddenBytes }

\* lines 305-322: ParseFloat of data[start:pos] for a float, then the sign
NumberEnd(p, l) ==
  IF ~l.isFloat THEN { Cfg(p, "return", l, Signed(l.neg, Norm(l.n, 0)), NoErr) }
  ELSE (IF p > Len(data) THEN { Cfg(p, "panic", l, Nil, NoErr) } ELSE { })
       \cup { FloatResult(p, l, ParseFloat(sn)) : sn \in Slices(l.start, p) }

\* a variant whose loop tests the byte under the cursor without calling next
ExpDigitLoopInPlace(p, l) ==
  LET nx == nextInPlace(p)
      l2 == [l EXCEPT !.c = nx.c]
  IN IF IsDigit(nx.c) THEN { Cfg(nx.pos, "expdigits", l2, Nil, NoErr) }
     ELSE NumberEnd(nx.pos, l2)

\* the loop "for c = d.next(); '0' <= c && c <= '9'; { c = d.next() }" of the
\* exponent, entered with d.pos = p: its head, at cursor p + 1, or the code
\* after it
ExpDigitLoop(p, l) ==
  LET nx == next(p)
      l2 == [l EXCEPT !.c = nx.c]
  IN IF IsDigit(nx.c) THEN { Cfg(nx.pos, "expdigits", l2, Nil, NoErr) }
     ELSE NumberEnd(nx.pos, l2)

\* lines 291-303: the exponent
AfterFrac(p, l) ==
  IF l.c \in {Ch.e, Ch.E}
  THEN LET n1 == next(p)
           n2 == next(n1.pos)
           l1 == [l EXCEPT !.isFloat = TRUE]
       IN IF n1.c \in {Ch.plus, Ch.minus}
          THEN IF ~IsDigit(n2.c)
               THEN { Cfg(n2.pos, "return", l1, Norm(0, 0),
                          DError(n2.c, "in exponent of numeric literal", n2.pos)) }
               ELSE ExpDigitLoop(n2.pos, l1)
          ELSE ExpDigitLoop(n1.pos, l1)
  ELSE NumberEnd(p, l)

\* the same loop of the fraction
FracDigitLoop(p, l) ==
  LET nx == next(p)
      l2 == [l EXCEPT !.c = nx.c]
  IN IF IsDigit(nx.c) THEN { Cfg(nx.pos, "fracdigits", l2, Nil, NoErr) }
     ELSE AfterFrac(nx.pos, l2)

\* the test after "d.pos++; c = d.data[d.pos]" behind '.': c < '0' && c > '9'
BadFracByte(c) == c < Ch.zero /\ c > Ch.nine

\* lines 279-289: the fraction
AfterInt(p, l) ==
  IF l.c = Ch.dot
  THEN LET l1 == [l EXCEPT !.isFloat = TRUE]
       IN IF ~InRange(p + 1) THEN { Cfg(p + 1, "panic", l1, Nil, NoErr) }
          ELSE IF BadFracByte(At(p + 1))
            THEN { Cfg(p + 1, "return", l1, Norm(0, 0),
                       DError(At(p + 1), "after decimal point in numeric literal", p + 1)) }
          ELSE FracDigitLoop(p + 1, l1)
  ELSE AfterFrac(p, l)

\* the test after "d.pos++; c = d.data[d.pos]" behind '-': c < '0' && c > '9'
BadSignByte(c) == c < Ch.zero /\ c > Ch.nine

\* lines 259-277: the sign and the first byte of the integer part
NumberStart(p, l) ==
  LET p1 == IF l.neg THEN p + 1 ELSE p
  IN IF ~InRange(p1) THEN { Cfg(p1, "panic", l, Nil, NoErr) }
     ELSE IF l.neg /\ BadSignByte(At(p1))
       THEN { Cfg(p1, "return", l, Norm(0, 0),
                  DError(At(p1), "in negative numeric literal", p1)) }
     ELSE LET c == At(p1)
              l1 == [l EXCEPT !.start = p1, !.c = c, !.n = 0]
          IN IF c = Ch.zero
             THEN LET nx == next(p1) IN AfterInt(nx.pos, [l1 EXCEPT !.c = nx.c])
             ELSE IF Ch.one <= c /\ c <= Ch.nine
               THEN { Cfg(p1, "digits", l1, Nil, NoErr) }
             ELSE AfterInt(p1, l1)

\* the configuration cfg becomes the state
Goto(cfg) ==
  IF cfg.k = "panic" THEN Panic(cfg.p)
  ELSE IF cfg.k = "return" THEN Return(cfg.p, stack, cfg.v, cfg.e)
  ELSE Step(cfg.p, cfg.k, stack, cfg.l, NoRet)

Number ==
  /\ status = "running"
  /\ pc = "number"
  /\ \E cfg \in NumberStart(pos, loc) : Goto(cfg)

\* one iteration of "for ; c >= '0' && c <= '9'; c = d.next()"
NumberDigits ==
  /\ status = "running"
  /\ pc = "digits"
  /\ LET nx == next(pos)
         l1 == [loc EXCEPT !.n = 10 * loc.n + (loc.c - Ch.zero), !.c = nx.c]
     IN \E cfg \in (IF IsDigit(nx.c) THEN { Cfg(nx.pos, "digits", l1, Nil, NoErr) }
                    ELSE AfterInt(nx.pos, l1)) : Goto(cfg)

\* one iteration of the loop over the digits of the fraction
NumberFracDigits ==
  /\ status = "running"
  /\ pc = "fracdigits"
  /\ \E cfg \in FracDigitLoop(pos, loc) : Goto(cfg)

\* one iteration of the loop over the digits of the exponent
NumberExpDigits ==
  /\ status = "running"
  /\ pc = "expdigits"
  /\ \E cfg \in ExpDigitLoop(pos, loc) : Goto(cfg)

(***************************************************************************)
(* The composite builders (Decoder.array, Decoder.object).                 *)
(***************************************************************************)
NoFrame == Frame("none", << >>, EmptyMap, << >>, "none")

ArrayFrame(a) == Frame("array", a, EmptyMap, << >>, "elem")

ObjectFrame(o, k, stt) == Frame("object", << >>, o, k, stt)

\* a variant that puts the new element first
prepend(a, v) == <<v>> \o a

\* append(array, v)
append(a, v) == Append(a, v)

\* array() up to its first call of d.any()
ArrayBegin ==
  /\ status = "running"
  /\ pc = "array"
  /\ LET p == SkipPos(pos + 1)
     IN IF p = -1 THEN Panic(pos + 1)
        ELSE IF SkipChar(p) = Ch.rbrack THEN Return(p + 1, stack, VArr(<< >>), NoErr)
        ELSE Step(p, "any", <<ArrayFrame(<< >>)>> \o stack, NoLoc, NoRet)

\* a variant that locates the byte after an element by its index from 0
AfterElementAtIndex(c, p) ==
  IF c = Ch.comma THEN [k |-> "scan", pos |-> p + 1, err |-> NoErr]
  ELSE IF c = Ch.rbrack THEN [k |-> "out", pos |-> p + 1, err |-> NoErr]
  ELSE [k |-> "out", pos |-> p, err |-> SyntaxError(c, "after array element", p)]

\* what array() does with the byte c that follows an element, at p
AfterElement(c, p) ==
  IF c = Ch.comma THEN [k |-> "scan", pos |-> p + 1, err |-> NoErr]
  ELSE IF c = Ch.rbrack THEN [k |-> "out", pos |-> p + 1, err |-> NoErr]
  ELSE [k |-> "out", pos |-> p, err |-> DError(c, "after array element", p)]

\* array() from the return of d.any() to the next call or to its return
ArrayElement ==
  /\ status = "running"
  /\ pc = "return"
  /\ stack # << >>
  /\ Head(stack).fn = "array"
  /\ LET fr == Head(stack)
         a == append(fr.array, ret.val)
         p == SkipPos(pos)
         x == AfterElement(SkipChar(p), p)
     IN IF ret.err # NoErr THEN Return(pos, Tail(stack), VArr(fr.array), ret.err)
        ELSE IF p = -1 THEN Panic(pos)
        ELSE IF x.k = "scan" THEN Step(x.pos, "any", <<ArrayFrame(a)>> \o Tail(stack), NoLoc, NoRet)
        ELSE Return(x.pos, Tail(stack), VArr(a), x.err)

\* a variant that lets the object end where a key should start
KeyStartOrEnd(p, st, o) ==
  IF SkipChar(p) = Ch.rbrace THEN Return(p + 1, st, VObj(o), NoErr)
  ELSE IF SkipChar(p) # Ch.quote
  THEN Return(p, st, VObj(o),
              DError(SkipChar(p), "looking for beginning of object key string", p))
  ELSE Step(p, "string", <<ObjectFrame(o, << >>, "key")>> \o st, NoLoc, NoRet)

\* the head of object()'s loop with skipSpaces stopped at p: the key must
\* start with a quote
KeyStart(p, st, o) ==
  IF SkipChar(p) # Ch.quote
  THEN Return(p, st, VObj(o),
              DError(SkipChar(p), "looking for beginning of object key string", p))
  ELSE Step(p, "string", <<ObjectFrame(o, << >>, "key")>> \o st, NoLoc, NoRet)

\* object() up to its first call of d.string()
ObjectBegin ==
  /\ status = "running"
  /\ pc = "object"
  /\ LET p == SkipPos(pos + 1)
     IN IF p = -1 THEN Panic(pos + 1)
        ELSE IF SkipChar(p) = Ch.rbrace THEN Return(p + 1, stack, VObj(EmptyMap), NoErr)
        ELSE KeyStart(p, stack, EmptyMap)

\* object() from the return of d.string() (the key) to the call of d.any()
ObjectKey ==
  /\ status = "running"
  /\ pc = "return"
  /\ stack # << >>
  /\ Head(stack).fn = "object"
  /\ Head(stack).st = "key"
  /\ LET fr == Head(stack)
         p == SkipPos(pos)
         c == SkipChar(p)
     IN IF ret.err # NoErr THEN Return(pos, Tail(stack), VObj(fr.obj), ret.err)
        ELSE IF p = -1 THEN Panic(pos)
        ELSE IF c # Ch.colon
          THEN Return(p, Tail(stack), VObj(fr.obj), DError(c, "after object key", p))
        ELSE Step(p + 1, "any", <<ObjectFrame(fr.obj, ret.val.s, "val")>> \o Tail(stack),
                  NoLoc, NoRet)

\* object() from the return of d.any() (the value) to the next key or to
\* its return
ObjectValue ==
  /\ status = "running"
  /\ pc = "return"
  /\ stack # << >>
  /\ Head(stack).fn = "object"
  /\ Head(stack).st = "val"
  /\ LET fr == Head(stack)
         o == MapSet(fr.obj, fr.k, ret.val)
         p == SkipPos(pos)
         c == SkipChar(p)
     IN IF ret.err # NoErr THEN Return(pos, Tail(stack), VObj(fr.obj), ret.err)
        ELSE IF p = -1 THEN Panic(pos)
        ELSE IF c = Ch.rbrace THEN Return(p + 1, Tail(stack), VObj(o), NoErr)
        ELSE IF c = Ch.comma
          THEN LET q == SkipPos(p + 1)
               IN IF q = -1 THEN Panic(p + 1) ELSE KeyStart(q, Tail(stack), o)
        ELSE Return(p, Tail(stack), VObj(o), DError(c, "after object key:value pair", p))

(***************************************************************************)
(* ValueType and Type (interface.go).                                      *)
(***************************************************************************)
\* the constants Null, Bool, ... of type ValueType, numbered by iota
ValueType ==
  [ Null |-> 0, Bool |-> 1, String |-> 2, Number |-> 3, Object |-> 4,
    Array |-> 5, Unknown |-> 6 ]

\* a variant without the case map[string]interface{}
TypeNoMap(v) ==
  CASE v.t = "nil" -> ValueType.Null
    [] v.t = "bool" -> ValueType.Bool
    [] v.t = "str" -> ValueType.String
    [] v.t = "num" -> ValueType.Number
    [] v.t \in {"arr", "nilarray"} -> ValueType.Array
    [] OTHER -> ValueType.Unknown

\* the type switch of Type: a nil slice and a nil map have the dynamic types
\* []interface{} and map[string]interface{}
Type(v) ==
  CASE v.t = "nil" -> ValueType.Null
    [] v.t = "bool" -> ValueType.Bool
    [] v.t = "str" -> ValueType.String
    [] v.t = "num" -> ValueType.Number
    [] v.t \in {"arr", "nilarray"} -> ValueType.Array
    [] v.t \in {"obj", "nilmap"} -> ValueType.Object
    [] OTHER -> ValueType.Unknown

(***************************************************************************)
(* The reference: the JSON grammar of RFC 8259 as encoding/json reads it   *)
(* into an interface{} (numbers as float64, the last of equal keys wins,   *)
(* unpaired surrogates and malformed UTF-8 become U+FFFD).  A result is    *)
(*   st = "ok":   the value v, and the index i (from 1) after it;          *)
(*   st = "eof":  the text ended where the production w needed more;       *)
(*   st = "bad":  the byte at i cannot stand where it does.                *)
(* The claims compare the decoder with it.  Init records it for the input  *)
(* in the variable expected, which no action reads or changes.             *)
(***************************************************************************)
RefOk(v, i) == [st |-> "ok", v |-> v, i |-> i, w |-> "none", value |-> FALSE]
RefEof(w) == [st |-> "eof", v |-> Nil, i |-> 0, w |-> w, value |-> FALSE]
RefBad(i, w) == [st |-> "bad", v |-> Nil, i |-> i, w |-> w, value |-> FALSE]
\* the text ended where the production w wanted a value to begin
RefNoValue(w) == [st |-> "eof", v |-> Nil, i |-> 0, w |-> w, value |-> TRUE]

RECURSIVE RefWS(_, _)
RefWS(s, i) == IF i <= Len(s) /\ IsSpace(s[i]) THEN RefWS(s, i + 1) ELSE i

\* the rest of a literal: word[k..] must stand at s[i..]
RECURSIVE RefWord(_, _, _, _, _)
RefWord(s, i, word, k, v) ==
  IF k > Len(word) THEN RefOk(v, i)
  ELSE IF i > Len(s) THEN RefEof("literal")
  ELSE IF s[i] # word[k] THEN RefBad(i, "literal")
  ELSE RefWord(s, i + 1, word, k + 1, v)

\* number = [ minus ] int [ frac ] [ exp ]
RefNumEnd(s, neg, j0, j1, j2, k, eneg, j3) ==
  IF k < j3 \/ k = j2
  THEN RefOk(Signed(neg, Norm(DigitsVal(s, j1 + 1, j2, DigitsVal(s, j0, j1, 0)),
                             (IF eneg THEN 0 - DigitsVal(s, k, j3, 0)
                              ELSE DigitsVal(s, k, j3, 0))
                             - (IF j2 > j1 THEN j2 - j1 - 1 ELSE 0))), j3)
  ELSE IF k > Len(s) THEN RefEof("in exponent of numeric literal")
  ELSE RefBad(k, "in exponent of numeric literal")

RefNumExp(s, neg, j0, j1, j2) ==
  IF j2 <= Len(s) /\ s[j2] \in {Ch.e, Ch.E}
  THEN IF j2 + 1 <= Len(s) /\ s[j2 + 1] \in {Ch.plus, Ch.minus}
       THEN RefNumEnd(s, neg, j0, j1, j2, j2 + 2, s[j2 + 1] = Ch.minus, DigitsEnd(s, j2 + 2))
       ELSE RefNumEnd(s, neg, j0, j1, j2, j2 + 1, FALSE, DigitsEnd(s, j2 + 1))
  ELSE RefNumEnd(s, neg, j0, j1, j2, j2, FALSE, j2)

RefNumFrac(s, neg, j0, j1) ==
  IF j1 <= Len(s) /\ s[j1] = Ch.dot
  THEN IF DigitsEnd(s, j1 + 1) = j1 + 1
       THEN (IF j1 + 1 > Len(s) THEN RefEof("after decimal point in numeric literal")
             ELSE RefBad(j1 + 1, "after decimal point in numeric literal"))
       ELSE RefNumExp(s, neg, j0, j1, DigitsEnd(s, j1 + 1))
  ELSE RefNumExp(s, neg, j0, j1, j1)

RefNumInt(s, neg, j0) ==
  IF j0 > Len(s) THEN RefEof("in negative numeric literal")
  ELSE IF ~IsDigit(s[j0]) THEN RefBad(j0, "in negative numeric literal")
  ELSE IF s[j0] = Ch.zero THEN RefNumFrac(s, neg, j0, j0 + 1)
  ELSE RefNumFrac(s, neg, j0, DigitsEnd(s, j0))

RefNumber(s, i) ==
  IF s[i] = Ch.minus THEN RefNumInt(s, TRUE, i + 1) ELSE RefNumInt(s, FALSE, i)

\* the byte of a two-character escape, -1 for any other byte
RefEscapeByte(c) ==
  CASE c \in {Ch.quote, Ch.bslash, Ch.slash} -> c
    [] c = Ch.b -> 8
    [] c = Ch.f -> 12
    [] c = Ch.n -> 10
    [] c = Ch.r -> 13
    [] c = Ch.t -> 9
    [] OTHER -> -1

\* the four hexadecimal digits at s[i..i+3]: their value, -1 at a byte that
\* is none, -2 when the text ends before
RECURSIVE RefHex4(_, _, _, _)
RefHex4(s, i, k, acc) ==
  IF k = 4 THEN acc
  ELSE IF i + k > Len(s) THEN -2
  ELSE IF HexVal(s[i + k]) = -1 THEN -1
  ELSE RefHex4(s, i, k + 1, acc * 16 + HexVal(s[i + k]))

\* the code unit of a \uXXXX escape at s[i..i+5], -1 if there is none
RefUnitAt(s, i) ==
  IF i + 5 <= Len(s) /\ s[i] = Ch.bslash /\ s[i + 1] = Ch.u
  THEN RefHex4(s, i + 2, 0, 0) ELSE -1

\* the characters of a string, from s[i], out being those read so far
RECURSIVE RefString(_, _, _)
RefUnicode(s, i, out, u1, u2) ==
  IF u1 = -2 THEN RefEof("in \\u hexadecimal character escape")
  ELSE IF u1 = -1 THEN RefBad(i + 2, "in \\u hexadecimal character escape")
  ELSE IF 55296 <= u1 /\ u1 < 56320 /\ 56320 <= u2 /\ u2 < 57344
    THEN RefString(s, i + 12, out \o EncodeRune(65536 + (u1 - 55296) * 1024 + (u2 - 56320)))
  ELSE IF 55296 <= u1 /\ u1 < 57344
    THEN RefString(s, i + 6, out \o EncodeRune(RuneError))
  ELSE RefString(s, i + 6, out \o EncodeRune(u1))

RefRune(s, i, out, d) == RefString(s, i + d.size, out \o EncodeRune(d.r))

RefString(s, i, out) ==
  IF i > Len(s) THEN RefEof("string")
  ELSE IF s[i] = Ch.quote THEN RefOk(VStr(out), i + 1)
  ELSE IF s[i] < Ch.space THEN RefBad(i, "in string literal")
  ELSE IF s[i] = Ch.bslash
    THEN IF i + 1 > Len(s) THEN RefEof("string")
         ELSE IF s[i + 1] = Ch.u
           THEN RefUnicode(s, i, out, RefHex4(s, i + 2, 0, 0), RefUnitAt(s, i + 6))
         ELSE IF RefEscapeByte(s[i + 1]) = -1 THEN RefBad(i + 1, "in string escape code")
         ELSE RefString(s, i + 2, Append(out, RefEscapeByte(s[i + 1])))
  ELSE IF s[i] <= MaxASCII THEN RefString(s, i + 1, Append(out, s[i]))
  ELSE RefRune(s, i, out, DecodeRune(SubSeq(s, i, Len(s))))

RECURSIVE RefValue(_, _, _)
RECURSIVE RefElems(_, _, _)
RECURSIVE RefMembers(_, _, _)

RefElemSep(s, acc, j) ==
  IF j > Len(s) THEN RefEof("array")
  ELSE IF s[j] = Ch.comma THEN RefElems(s, RefWS(s, j + 1), acc)
  ELSE IF s[j] = Ch.rbrack THEN RefOk(VArr(acc), j + 1)
  ELSE RefBad(j, "after array element")

RefElem(s, acc, r) ==
  IF r.st # "ok" THEN r ELSE RefElemSep(s, Append(acc, r.v), RefWS(s, r.i))

RefElems(s, j, acc) == RefElem(s, acc, RefValue(s, j, "array"))

RefArray(s, j) ==
  IF j > Len(s) THEN RefEof("array")
  ELSE IF s[j] = Ch.rbrack THEN RefOk(VArr(<< >>), j + 1)
  ELSE RefElems(s, j, << >>)

RefMemberSep(s, o, j) ==
  IF j > Len(s) THEN RefEof("object")
  ELSE IF s[j] = Ch.comma THEN RefMembers(s, RefWS(s, j + 1), o)
  ELSE IF s[j] = Ch.rbrace THEN RefOk(VObj(o), j + 1)
  ELSE RefBad(j, "after object key:value pair")

RefMemberValue(s, o, k, r) ==
  IF r.st # "ok" THEN r ELSE RefMemberSep(s, MapSet(o, k, r.v), RefWS(s, r.i))

RefColon(s, o, k, j) ==
  IF j > Len(s) THEN RefEof("object")
  ELSE IF s[j] # Ch.colon THEN RefBad(j, "after object key")
  ELSE RefMemberValue(s, o, k, RefValue(s, RefWS(s, j + 1), "object"))

RefKey(s, o, r) ==
  IF r.st # "ok" THEN r ELSE RefColon(s, o, r.v.s, RefWS(s, r.i))

RefMembers(s, j, o) ==
  IF j > Len(s) THEN RefEof("object")
  ELSE IF s[j] # Ch.quote THEN RefBad(j, "object key")
  ELSE RefKey(s, o, RefString(s, j + 1, << >>))

RefObject(s, j) ==
  IF j > Len(s) THEN RefEof("object")
  ELSE IF s[j] = Ch.rbrace THEN RefOk(VObj(EmptyMap), j + 1)
  ELSE RefMembers(s, j, EmptyMap)

\* the value that starts at s[i]; w is the production that wants it
RefValue(s, i, w) ==
  IF i > Len(s) THEN RefNoValue(w)
  ELSE IF s[i] = Ch.quote THEN RefString(s, i + 1, << >>)
  ELSE IF s[i] = Ch.minus \/ IsDigit(s[i]) THEN RefNumber(s, i)
  ELSE IF s[i] = Ch.t THEN RefWord(s, i + 1, <<Ch.r, Ch.u, Ch.e>>, 1, VBool(TRUE))
  ELSE IF s[i] = Ch.f THEN RefWord(s, i + 1, <<Ch.a, Ch.l, Ch.s, Ch.e>>, 1, VBool(FALSE))
  ELSE IF s[i] = Ch.n THEN RefWord(s, i + 1, <<Ch.u, Ch.l, Ch.l>>, 1, Nil)
  ELSE IF s[i] = Ch.lbrack THEN RefArray(s, RefWS(s, i + 1))
  ELSE IF s[i] = Ch.lbrace THEN RefObject(s, RefWS(s, i + 1))
  ELSE RefBad(i, "looking for beginning of value")

\* a JSON text: ws value ws.  st = "trailing": the value v is followed by
\* the byte at i, which is no white space
RefText(s, r, j) ==
  IF r.st # "ok" \/ j > Len(s) THEN r
  ELSE [st |-> "trailing", v |-> r.v, i |-> j, w |-> "none", value |-> FALSE]

RefTop(s, r) == IF r.st = "ok" THEN RefText(s, r, RefWS(s, r.i)) ELSE r

RefDecode(s) == RefTop(s, RefValue(s, RefWS(s, 1), "top"))

(***************************************************************************)
(* The specification.  NewDecoder gives the state Init; expected is fixed  *)
(* there once and for all.                                                 *)
(***************************************************************************)
Init ==
  /\ family \in Families
  /\ data \in Inputs[family]
  /\ expected = RefDecode(data)
  /\ end = Len(data)
  /\ pos = 0
  /\ usestring = FALSE
  /\ entry = "none"
  /\ status = "ready"
  /\ pc = "ready"
  /\ stack = << >>
  /\ loc = NoLoc
  /\ ret = NoRet
  /\ result = NoRet
  /\ prev = << >>

Next ==
  \/ AllocString
  \/ CallDecode
  \/ CallDecodeObject
  \/ CallDecodeArray
  \/ CallPackageDecodeObject
  \/ CallPackageDecodeArray
  \/ CallDecodeString
  \/ CallDecodeNumber
  \/ any
  \/ StringBegin
  \/ StringScan
  \/ StringEscapeU
  \/ Number
  \/ NumberDigits
  \/ NumberFracDigits
  \/ NumberExpDigits
  \/ ArrayBegin
  \/ ArrayElement
  \/ ObjectBegin
  \/ ObjectKey
  \/ ObjectValue
  \/ EntryReturn

Spec == Init /\ [][Next]_vars

\* what is kept of a call once it is over
Outcome ==
  [ entry |-> entry, usestring |-> usestring, status |-> status, pos |-> pos,
    result |-> result ]

\* the Decoder is kept after a method returned and is used for another
\* call: NewDecoder is the only place where pos is set, so the next call
\* starts where this one stopped
Reuse ==
  /\ status = "returned"
  /\ entry \in {"Decode", "DecodeObject", "DecodeArray"}
  /\ prev' = Outcome
  /\ status' = "ready"
  /\ pc' = "ready"
  /\ entry' = "none"
  /\ result' = NoRet
  /\ ret' = NoRet
  /\ UNCHANGED <<family, expected, data, end, pos, usestring, stack, loc>>

NextReuse == Next \/ Reuse

\* the behaviours in which a Decoder serves several calls
SpecReuse == Init /\ [][NextReuse]_vars

\* NewDecoder once more, on a slice that holds the same bytes, after a first
\* Decoder was used for one call of a method
Renew ==
  /\ status \in {"returned", "panic"}
  /\ entry \in {"Decode", "DecodeObject", "DecodeArray"}
  /\ prev = << >>
  /\ prev' = Outcome
  /\ pos' = 0
  /\ usestring' = FALSE
  /\ status' = "ready"
  /\ pc' = "ready"
  /\ entry' = "none"
  /\ stack' = << >>
  /\ loc' = NoLoc
  /\ result' = NoRet
  /\ ret' = NoRet
  /\ UNCHANGED <<family, expected, data, end>>

NextRenew == Next \/ Renew

\* the behaviours in which the same bytes are decoded twice, each time by a
\* Decoder of its own
SpecRenew == Init /\ [][NextRenew]_vars

\* a call that was made runs on: the code of a call is sequential and no
\* step of it waits for anything.  Whether a call is made at all is the
\* caller's choice, so the entry actions are under no fairness condition
Running == status = "running" /\ Next

SpecFair == Spec /\ WF_vars(Running)

\* the reference's reading of the input of this behaviour
Reference == expected

Done == status \in {"returned", "panic"}

(***************************************************************************)
(* C1.  Every valid JSON text, white space around it included, makes       *)
(* Decode return no error and the value the reference decoder returns:     *)
(* the same variant at every node, the same elements in the same order,    *)
(* the same keys with the same values.                                     *)
(***************************************************************************)
C1_ValidTextDecodesAsReference ==
  (entry = "Decode" /\ Done /\ Reference.st = "ok")
    => (status = "returned" /\ result = Ret(Reference.v, NoErr))

\* a valid text after white space, an array of two elements, has been decoded
C1_Witness ==
  /\ entry = "Decode" /\ status = "returned" /\ Reference.st = "ok"
  /\ result.err = NoErr
  /\ IsSpace(data[1])
  /\ result.val.t = "arr" /\ Len(result.val.a) = 2

(***************************************************************************)
(* C2.  Every input that is not a valid JSON text makes Decode return an   *)
(* error, never a decoded value.                                           *)
(***************************************************************************)
C2_InvalidTextIsRejected ==
  (entry = "Decode" /\ status = "returned" /\ Reference.st # "ok")
    => result.err # NoErr

(***************************************************************************)
(* C3.  Whatever the input, no entry point faults by reading the input at  *)
(* an index outside 0..end-1: each ends by returning a value or an error.  *)
(***************************************************************************)
C3_NoFault == status # "panic"

(***************************************************************************)
(* C4.  When a complete top-level value is followed by a byte c that is no *)
(* white space, Decode, DecodeObject and DecodeArray fail with the         *)
(* SyntaxError "invalid character c after top-level value" whose Offset is *)
(* the index of the first such byte plus one.                              *)
(***************************************************************************)
Composite == [DecodeObject |-> "obj", DecodeArray |-> "arr"]

\* the reference finds a value the entry point takes, then the byte at i
TrailingByte ==
  /\ entry \in {"Decode", "DecodeObject", "DecodeArray"}
  /\ Reference.st = "trailing"
  /\ entry # "Decode" => Reference.v.t = Composite[entry]

C4_TrailingByteIsSyntaxError ==
  (Done /\ TrailingByte)
    => /\ status = "returned"
       /\ result.err = SyntaxError(data[Reference.i], "after top-level value", Reference.i)

\* a composite with white space and then a byte after it has been refused
C4_Witness ==
  /\ status = "returned" /\ TrailingByte
  /\ entry = "DecodeArray"
  /\ Reference.i > 3
  /\ IsSpace(data[Reference.i - 1])
  /\ result.err.kind = "syntax"

(***************************************************************************)
(* C5.  An error of Decode, DecodeObject or DecodeArray comes with a nil   *)
(* value: the array or map a builder has filled so far is never handed to  *)
(* the caller, at whatever depth the error arose.                          *)
(***************************************************************************)
C5_ErrorComesWithNil ==
  (status = "returned" /\ entry \in {"Decode", "DecodeObject", "DecodeArray"}
     /\ result.err # NoErr)
    => result.val = (CASE entry = "Decode" -> Nil
                       [] entry = "DecodeObject" -> NilMap
                       [] entry = "DecodeArray" -> NilArray)

\* the outer builder held a non-empty array when an array nested in it failed
C5_Witness ==
  /\ status = "returned" /\ entry \in {"Decode", "DecodeObject", "DecodeArray"}
  /\ result.err # NoErr
  /\ result.val \in {Nil, NilMap, NilArray}
  /\ ret.val.t = "arr" /\ Len(ret.val.a) > 0
  /\ result.err.kind = "syntax"
  /\ result.err.ctx = "looking for beginning of value"
  /\ Cardinality({i \in 1..result.err.off : data[i] = Ch.lbrack}) > 1

\* the entry point was given a text that starts as it wants
Takes ==
  \/ entry = "Decode"
  \/ /\ entry \in {"DecodeObject", "DecodeArray"}
     /\ RefWS(data, 1) <= Len(data)
     /\ data[RefWS(data, 1)] = (IF entry = "DecodeObject" THEN Ch.lbrace ELSE Ch.lbrack)

\* the reference stopped in the production w, at a byte or at the end
Stopped(w) == Reference.st \in {"bad", "eof"} /\ Reference.w = w

(***************************************************************************)
(* C6.  A '-' that no digit follows never decodes to a number: decoding    *)
(* fails with an error, be the '-' the whole input or the start of a value *)
(* nested in an array or object.                                           *)
(***************************************************************************)
C6_MinusWithoutDigitIsRejected ==
  (Takes /\ status = "returned" /\ Stopped("in negative numeric literal"))
    => result.err # NoErr

(***************************************************************************)
(* C7.  In a number a '.' is followed by one or more digits, and an        *)
(* exponent marker with its optional sign is followed by one or more       *)
(* digits: when another byte follows, decoding fails with an error and no  *)
(* number is returned.                                                     *)
(***************************************************************************)
C7_FractionAndExponentNeedDigits ==
  (Takes /\ status = "returned"
     /\ \/ Stopped("after decimal point in numeric literal")
        \/ Stopped("in exponent of numeric literal"))
    => result.err # NoErr

(***************************************************************************)
(* C8.  When the first significant byte after an array element is neither  *)
(* ',' nor ']', after an object key is not ':', or after a key:value pair  *)
(* is neither ',' nor '}', decoding fails with the SyntaxError "invalid    *)
(* character c after array element" / "after object key" / "after object   *)
(* key:value pair" that names the byte, its Offset being the index of the  *)
(* byte plus one.                                                          *)
(***************************************************************************)
SeparatorContexts ==
  {"after array element", "after object key", "after object key:value pair"}

C8_BadSeparatorIsSyntaxError ==
  (Takes /\ Done /\ Reference.st = "bad" /\ Reference.w \in SeparatorContexts)
    => /\ status = "returned"
       /\ result.err = SyntaxError(data[Reference.i], Reference.w, Reference.i)

\* a byte that is no ':' has been met after white space after a key that is
\* not the first of its object
C8_Witness ==
  /\ Takes /\ status = "returned"
  /\ Reference.st = "bad" /\ Reference.w = "after object key"
  /\ IsSpace(data[Reference.i - 1])
  /\ Reference.i > 9
  /\ result.err.kind = "syntax"

(***************************************************************************)
(* C9.  When the first significant byte where a value must begin is none   *)
(* of '"', '0'-'9', '-', 'f', 't', 'n', '[', '{', the end of the input     *)
(* being one such case, decoding fails with the error "invalid character   *)
(* ... looking for beginning of value" whose Offset is pos+1.              *)
(***************************************************************************)
NoValueStart ==
  \/ Reference.st = "bad" /\ Reference.w = "looking for beginning of value"
  \/ Reference.st = "eof" /\ Reference.value

\* pos+1 for the position where the value should have begun
ValueOffset == IF Reference.st = "eof" THEN Len(data) + 1 ELSE Reference.i

C9_NoValueStartIsSyntaxError ==
  (Takes /\ Done /\ NoValueStart)
    => /\ status = "returned"
       /\ result.err.kind = "syntax"
       /\ result.err.ctx = "looking for beginning of value"
       /\ result.err.off = ValueOffset

(***************************************************************************)
(* C9, amended.  A byte c that can start no value fails with the           *)
(* SyntaxError "invalid character c looking for beginning of value" whose  *)
(* Offset is the index of c plus one; the end of the input where a value   *)
(* must begin fails with ErrUnexpectedEOF.                                 *)
(***************************************************************************)
C9_NoValueStartIsSyntaxErrorOrEOF ==
  (Takes /\ Done /\ NoValueStart)
    => /\ status = "returned"
       /\ result.err = (IF Reference.st = "eof" THEN ErrUnexpectedEOF
                        ELSE SyntaxError(data[Reference.i],
                                         "looking for beginning of value", Reference.i))

\* an input of white space only has been refused
C9_Witness ==
  /\ Takes /\ status = "returned" /\ NoValueStart
  /\ Reference.st = "eof"
  /\ Len(data) > 2 /\ \A i \in 1..Len(data) : IsSpace(data[i])
  /\ result.err = ErrUnexpectedEOF

(***************************************************************************)
(* C10.  When the input ends in the middle of a string (right after a      *)
(* backslash and inside a \u escape included), in the middle of a true,    *)
(* false or null literal, or inside an array or object that is not closed  *)
(* yet, decoding fails with ErrUnexpectedEOF, whose Offset is -1.          *)
(***************************************************************************)
C10_TruncatedInputIsUnexpectedEOF ==
  (Takes /\ Done /\ Reference.st = "eof"
     /\ Reference.w \in {"string", "in \\u hexadecimal character escape",
                        "literal", "array", "object"})
    => (status = "returned" /\ result.err = ErrUnexpectedEOF)

\* the entry point was given a text that starts with the quote of a string
TakesString ==
  \/ entry = "Decode"
  \/ /\ entry = "DecodeString"
     /\ RefWS(data, 1) <= Len(data)
     /\ data[RefWS(data, 1)] = Ch.quote

(***************************************************************************)
(* C11.  A \u escape in a string that four hexadecimal digits do not       *)
(* follow (a byte that is none at one of the four places, or fewer than    *)
(* four bytes left) makes decoding fail with ErrInvalidHexEscape or with   *)
(* the SyntaxError "invalid character ... in \u hexadecimal character      *)
(* escape"; no string is returned for it.                                  *)
(***************************************************************************)
C11_BadHexEscapeIsHexEscapeError ==
  (TakesString /\ Done /\ Stopped("in \\u hexadecimal character escape"))
    => /\ status = "returned"
       /\ \/ result.err = ErrInvalidHexEscape
          \/ /\ result.err.kind = "syntax"
             /\ result.err.ctx = "in \\u hexadecimal character escape"

(***************************************************************************)
(* C12.  In a string a raw byte below 0x20, and a backslash followed by a  *)
(* byte other than '"', '\', '/', 'b', 'f', 'n', 'r', 't', 'u', are fatal: *)
(* decoding fails with the SyntaxError that names the byte, "in string     *)
(* literal" or "in string escape code", its Offset being the index of the  *)
(* byte plus one, and no string is returned.                               *)
(***************************************************************************)
C12_BadStringByteIsSyntaxError ==
  (TakesString /\ Done /\ Reference.st = "bad"
     /\ Reference.w \in {"in string literal", "in string escape code"})
    => /\ status = "returned"
       /\ result.err = SyntaxError(data[Reference.i], Reference.w, Reference.i)
       /\ result.val \in {Nil, VStr(<< >>)}

\* a backslash with a byte that is no escape letter has been met after other
\* characters of the string
C12_Witness ==
  /\ TakesString /\ status = "returned"
  /\ Reference.st = "bad" /\ Reference.w = "in string escape code"
  /\ Reference.i > 3
  /\ result.err.kind = "syntax"

(***************************************************************************)
(* C13.  Trailing commas are rejected: a ',' that ']' or '}' follows,      *)
(* white space between them or not, makes decoding fail with an error; so  *)
(* do a leading comma and two commas in a row.                             *)
(***************************************************************************)
\* the index of the last byte of s[1..i] that is no white space, 0 if none
RECURSIVE LastSignificant(_, _)
LastSignificant(s, i) ==
  IF i >= 1 /\ IsSpace(s[i]) THEN LastSignificant(s, i - 1) ELSE i

\* the comma at data[i] is followed by a closing bracket or a comma, or
\* follows an opening bracket
MisplacedComma(i) ==
  /\ data[i] = Ch.comma
  /\ \/ /\ RefWS(data, i + 1) <= Len(data)
        /\ data[RefWS(data, i + 1)] \in {Ch.rbrack, Ch.rbrace, Ch.comma}
     \/ /\ LastSignificant(data, i - 1) >= 1
        /\ data[LastSignificant(data, i - 1)] \in {Ch.lbrack, Ch.lbrace}

\* in these families every comma of the input stands between brackets
C13_MisplacedCommaIsRejected ==
  (family \in {"arr", "obj", "key"} /\ Takes /\ Done
     /\ \E i \in 1..Len(data) : MisplacedComma(i))
    => (status = "returned" /\ result.err # NoErr)

\* an object whose last pair is followed by a comma, white space and '}'
\* has been refused
C13_Witness ==
  /\ family = "obj" /\ Takes /\ status = "returned"
  /\ \E i \in 2..Len(data) - 2 :
       /\ data[i] = Ch.comma /\ IsSpace(data[i + 1]) /\ data[i + 2] = Ch.rbrace
       /\ IsDigit(data[i - 1])
       /\ result.err = SyntaxError(Ch.rbrace, "looking for beginning of object key string", i + 2)

(***************************************************************************)
(* C14.  When an object holds a key several times, the decoded map holds   *)
(* the key once, with the value of its last occurrence in the input; the   *)
(* map has as many keys as the input object has distinct keys.             *)
(***************************************************************************)
\* the input does not start, after white space, with the byte open
NotOpenedBy(open) ==
  RefWS(data, 1) > Len(data) \/ data[RefWS(data, 1)] # open

\* the <<key, value>> pairs of the members of a valid object, in the order
\* of the input; j is the index of the quote that opens the next key
RECURSIVE RefPairsFrom(_, _, _)
RefPairsNext(s, acc, j) ==
  IF s[j] = Ch.comma THEN RefPairsFrom(s, RefWS(s, j + 1), acc) ELSE acc

RefPairsValue(s, acc, k, r) == RefPairsNext(s, Append(acc, <<k, r.v>>), RefWS(s, r.i))

RefPairsKey(s, acc, k) ==
  RefPairsValue(s, acc, k.v.s, RefValue(s, RefWS(s, RefWS(s, k.i) + 1), "object"))

RefPairsFrom(s, j, acc) == RefPairsKey(s, acc, RefString(s, j + 1, << >>))

RefPairsOf(s, j) == IF s[j] = Ch.rbrace THEN << >> ELSE RefPairsFrom(s, j, << >>)

\* the pairs of the object the input is
Pairs == RefPairsOf(data, RefWS(data, RefWS(data, 1) + 1))

ValidObject ==
  /\ Takes /\ entry # "DecodeArray"
  /\ ~NotOpenedBy(Ch.lbrace)
  /\ Reference.st = "ok" /\ Reference.v.t = "obj"

LastOf(ps, k) == CHOOSE n \in 1..Len(ps) :
                   /\ ps[n][1] = k
                   /\ \A m \in n + 1..Len(ps) : ps[m][1] # k

LastWins(o, ps) ==
  /\ DOMAIN o = { ps[n][1] : n \in 1..Len(ps) }
  /\ \A k \in DOMAIN o : o[k] = ps[LastOf(ps, k)][2]
  /\ Cardinality(DOMAIN o) = Cardinality({ ps[n][1] : n \in 1..Len(ps) })

C14_LastDuplicateKeyWins ==
  (Done /\ ValidObject)
    => /\ status = "returned" /\ result.err = NoErr
       /\ result.val.t = "obj"
       /\ LastWins(result.val.o, Pairs)

\* an object with the same key twice, with different values, has been decoded
C14_Witness ==
  /\ ValidObject /\ status = "returned" /\ result.err = NoErr
  /\ Len(Pairs) = 2
  /\ Pairs[1][1] = Pairs[2][1] /\ Pairs[1][2] # Pairs[2][2]
  /\ DOMAIN result.val.o = {Pairs[1][1]}

(***************************************************************************)
(* C15.  In a string, the escape of a high surrogate that the escape of a  *)
(* low surrogate follows at once decodes to the one scalar the pair        *)
(* encodes, both escapes consumed; the escape of a surrogate outside such  *)
(* a pair decodes to one U+FFFD, and what follows it is decoded on its     *)
(* own.                                                                    *)
(***************************************************************************)
HighEscape == <<Ch.bslash, Ch.u, Ch.D, Ch.eight, Ch.three, Ch.four>>

LowEscape == <<Ch.bslash, Ch.u, Ch.D, Ch.D, Ch.one, Ch.E>>

\* U+1D11E, the scalar of the pair D834 DD1E, and U+FFFD, in UTF-8
GClef == <<240, 157, 132, 158>>

Replacement == <<239, 191, 189>>

EscapeAt(s, i, esc) == i + 5 <= Len(s) /\ SubSeq(s, i, i + 5) = esc

\* the text of a string of the family "sur" whose content starts at s[i]
RECURSIVE SurText(_, _)
SurText(s, i) ==
  IF s[i] = Ch.quote THEN << >>
  ELSE IF s[i] # Ch.bslash THEN <<s[i]>> \o SurText(s, i + 1)
  ELSE IF EscapeAt(s, i, HighEscape) /\ EscapeAt(s, i + 6, LowEscape)
    THEN GClef \o SurText(s, i + 12)
  ELSE Replacement \o SurText(s, i + 6)

C15_SurrogateEscapes ==
  (family = "sur" /\ TakesString /\ Done /\ Reference.st = "ok")
    => /\ status = "returned"
       /\ result = Ret(VStr(SurText(data, 2)), NoErr)

\* the pair has been decoded to its scalar
C15_Witness ==
  /\ family = "sur" /\ status = "returned"
  /\ data = <<Ch.quote>> \o HighEscape \o LowEscape \o <<Ch.quote>>
  /\ result = Ret(VStr(GClef), NoErr)

(***************************************************************************)
(* C16.  In the content of a string, every byte that does not start a      *)
(* well-formed UTF-8 sequence is replaced by one U+FFFD and decoding goes  *)
(* on at the next byte, without an error: 0xFF gives one U+FFFD, two       *)
(* truncated sequences in a row give two, the three bytes that encode a    *)
(* surrogate give three.                                                   *)
(***************************************************************************)
\* the length of the well-formed UTF-8 sequence that starts at s[i], 0 if
\* none does (the Unicode standard, table 3-7)
WellFormedAt(s, i) ==
  LET has(n) == i + n - 1 <= Len(s)
      in(j, lo, hi) == lo <= s[j] /\ s[j] <= hi
      lo2 == IF s[i] = 224 THEN 160 ELSE IF s[i] = 240 THEN 144 ELSE 128
      hi2 == IF s[i] = 237 THEN 159 ELSE IF s[i] = 244 THEN 143 ELSE 191
  IN IF s[i] <= 127 THEN 1
     ELSE IF in(i, 194, 223) /\ has(2) /\ in(i + 1, 128, 191) THEN 2
     ELSE IF in(i, 224, 239) /\ has(3) /\ in(i + 1, lo2, hi2) /\ in(i + 2, 128, 191) THEN 3
     ELSE IF in(i, 240, 244) /\ has(4) /\ in(i + 1, lo2, hi2) /\ in(i + 2, 128, 191)
             /\ in(i + 3, 128, 191) THEN 4
     ELSE 0

\* the text of a string without escapes whose content starts at s[i]
RECURSIVE UtfText(_, _)
UtfTextNext(s, i, n) ==
  IF n = 0 THEN Replacement \o UtfText(s, i + 1)
  ELSE SubSeq(s, i, i + n - 1) \o UtfText(s, i + n)

UtfText(s, i) == IF s[i] = Ch.quote THEN << >> ELSE UtfTextNext(s, i, WellFormedAt(s, i))

\* the input is one string: a quote, bytes that are no quote, a quote
Quoted ==
  /\ Len(data) >= 2 /\ data[1] = Ch.quote /\ data[Len(data)] = Ch.quote
  /\ \A i \in 2..Len(data) - 1 : data[i] # Ch.quote

C16_MalformedUTF8IsReplaced ==
  (family = "utf" /\ entry = "Decode" /\ Done /\ Quoted)
    => /\ status = "returned"
       /\ result = Ret(VStr(UtfText(data, 2)), NoErr)

\* the three bytes that encode U+D800 have been decoded to three U+FFFD
C16_Witness ==
  /\ family = "utf" /\ status = "returned"
  /\ data = <<Ch.quote, 237, 160, 128, Ch.quote>>
  /\ result = Ret(VStr(Replacement \o Replacement \o Replacement), NoErr)

(***************************************************************************)
(* C17.  A decoded array holds the values of the input array in the order  *)
(* of the input: it has as many elements as stand between '[' and ']',     *)
(* and element i is what element i of the input decodes to; the same       *)
(* holds for every array nested in it.                                     *)
(***************************************************************************)
\* the indices at which the elements of an array start, read off the
\* brackets and commas: j is the byte looked at, d the number of brackets
\* open (1 inside the array itself), fresh tells that an element is due.
\* No bracket or comma stands inside a string in the families this is
\* used on.
RECURSIVE ElementStarts(_, _, _, _, _)
ElementStarts(s, j, d, fresh, acc) ==
  IF d = 0 THEN acc
  ELSE IF IsSpace(s[j]) THEN ElementStarts(s, j + 1, d, fresh, acc)
  ELSE IF s[j] \in {Ch.rbrack, Ch.rbrace} THEN ElementStarts(s, j + 1, d - 1, FALSE, acc)
  ELSE IF s[j] = Ch.comma THEN ElementStarts(s, j + 1, d, d = 1, acc)
  ELSE ElementStarts(s, j + 1, IF s[j] \in {Ch.lbrack, Ch.lbrace} THEN d + 1 ELSE d, FALSE,
                     IF fresh THEN Append(acc, j) ELSE acc)

\* v is the array whose '[' is s[i]
RECURSIVE HoldsElements(_, _, _)
HoldsElementsAt(v, s, starts) ==
  /\ v.t = "arr"
  /\ Len(v.a) = Len(starts)
  /\ \A n \in 1..Len(starts) :
       IF s[starts[n]] = Ch.lbrack THEN HoldsElements(v.a[n], s, starts[n])
       ELSE v.a[n] = RefValue(s, starts[n], "array").v

HoldsElements(v, s, i) == HoldsElementsAt(v, s, ElementStarts(s, i + 1, 1, TRUE, << >>))

ValidArray ==
  /\ family \in {"arr", "num"} /\ Takes /\ entry # "DecodeObject"
  /\ ~NotOpenedBy(Ch.lbrack)
  /\ Reference.st = "ok" /\ Reference.v.t = "arr"

EmptyArray == [t |-> "arr", a |-> << >>]

EmptyObject == [t |-> "obj", o |-> EmptyMap]

NotEmpty == [t |-> "none"]

\* s[i] opens a pair of brackets with white space only up to j, the index
\* of the closing one
BracketsAt(s, i, j, open, close) ==
  i <= Len(s) /\ s[i] = open /\ j <= Len(s) /\ s[j] = close

\* what the brackets at s[i] decode to
EmptyValueAt(s, i) ==
  IF BracketsAt(s, i, RefWS(s, i + 1), Ch.lbrack, Ch.rbrack) THEN EmptyArray
  ELSE IF BracketsAt(s, i, RefWS(s, i + 1), Ch.lbrace, Ch.rbrace) THEN EmptyObject
  ELSE NotEmpty

\* the input is empty brackets and white space around them
TopEmpty ==
  /\ Takes
  /\ EmptyValueAt(data, RefWS(data, 1)) # NotEmpty
  /\ RefWS(data, RefWS(data, RefWS(data, 1) + 1) + 1) > Len(data)

\* the indices at which the values of the members of an object start: the
\* first byte after a ':' of the object itself.  No bracket, comma or
\* colon stands inside a string in the families this is used on.
RECURSIVE MemberValueStarts(_, _, _, _, _)
MemberValueStarts(s, j, d, fresh, acc) ==
  IF d = 0 THEN acc
  ELSE IF IsSpace(s[j]) THEN MemberValueStarts(s, j + 1, d, fresh, acc)
  ELSE IF s[j] \in {Ch.rbrack, Ch.rbrace} THEN MemberValueStarts(s, j + 1, d - 1, FALSE, acc)
  ELSE IF s[j] = Ch.colon THEN MemberValueStarts(s, j + 1, d, d = 1, acc)
  ELSE MemberValueStarts(s, j + 1, IF s[j] \in {Ch.lbrack, Ch.lbrace} THEN d + 1 ELSE d, FALSE,
                         IF fresh THEN Append(acc, j) ELSE acc)

EmptyElements(a, s, starts) ==
  /\ Len(a) = Len(starts)
  /\ \A n \in 1..Len(starts) :
       EmptyValueAt(s, starts[n]) # NotEmpty => a[n] = EmptyValueAt(s, starts[n])

EmptyMembers(o, s, ps, starts) ==
  /\ Len(ps) = Len(starts)
  /\ \A n \in 1..Len(starts) :
       (EmptyValueAt(s, starts[n]) # NotEmpty /\ LastOf(ps, ps[n][1]) = n)
         => (ps[n][1] \in DOMAIN o /\ o[ps[n][1]] = EmptyValueAt(s, starts[n]))

C18_EmptyBracketsDecodeToEmptyContainers ==
  /\ (Done /\ TopEmpty)
       => result = Ret(EmptyValueAt(data, RefWS(data, 1)), NoErr)
  /\ (Done /\ ValidArray)
       => /\ status = "returned" /\ result.val.t = "arr"
          /\ EmptyElements(result.val.a, data,
                           ElementStarts(data, RefWS(data, 1) + 1, 1, TRUE, << >>))
  /\ (Done /\ ValidObject)
       => /\ status = "returned" /\ result.val.t = "obj"
          /\ EmptyMembers(result.val.o, data, Pairs,
                          MemberValueStarts(data, RefWS(data, 1) + 1, 1, FALSE, << >>))

\* an object whose member "b" is the empty object has been decoded
C18_Witness ==
  /\ ValidObject /\ status = "returned" /\ result.err = NoErr
  /\ Len(Pairs) = 2 /\ Pairs[2][1] = <<Ch.b>>
  /\ EmptyValueAt(data, MemberValueStarts(data, 2, 1, FALSE, << >>)[2]) = EmptyObject
  /\ result.val.o[<<Ch.b>>] = EmptyObject

(***************************************************************************)
(* C19.  DecodeObject returns an error whenever the first byte of the      *)
(* input that is no white space is not '{', and DecodeArray whenever it    *)
(* is not '[', the end of the input included: no other input is taken for  *)
(* an object or an array.                                                  *)
(***************************************************************************)
C19_CompositeEntryChecksFirstByte ==
  (/\ Done
   /\ \/ entry \in {"DecodeObject", "djson.DecodeObject"} /\ NotOpenedBy(Ch.lbrace)
      \/ entry \in {"DecodeArray", "djson.DecodeArray"} /\ NotOpenedBy(Ch.lbrack))
    => (status = "returned" /\ result.err # NoErr)

(***************************************************************************)
(* C20.  DecodeString returns an error whenever the first byte of the      *)
(* input that is no white space is not '"', and DecodeNumber whenever it   *)
(* is neither '-' nor a digit: no other input is returned as a string or   *)
(* as a number.                                                            *)
(***************************************************************************)
\* the input does not start, after white space, with '-' or a digit
NotNumberStart ==
  \/ RefWS(data, 1) > Len(data)
  \/ ~(data[RefWS(data, 1)] = Ch.minus \/ IsDigit(data[RefWS(data, 1)]))

C20_ScalarEntryChecksFirstByte ==
  (/\ Done
   /\ \/ entry = "DecodeString" /\ NotOpenedBy(Ch.quote)
      \/ entry = "DecodeNumber" /\ NotNumberStart)
    => (status = "returned" /\ result.err # NoErr)
(***************************************************************************)
(* C21.  Whatever a decode call returns without error, Type gives the      *)
(* value, and every element and member value inside it, the kind of the    *)
(* JSON production it was read from: Null for null, Bool for true and      *)
(* false, String, Number, Array, Object; never Unknown.                    *)
(***************************************************************************)
\* the kind of the production a reference value stands for
KindOf(r) ==
  CASE r.t = "nil" -> 0
    [] r.t = "bool" -> 1
    [] r.t = "str" -> 2
    [] r.t = "num" -> 3
    [] r.t = "obj" -> 4
    [] r.t = "arr" -> 5

\* Type gives v and all that is nested in it the kinds of r
RECURSIVE KindsMatch(_, _)
KindsMatch(v, r) ==
  /\ Type(v) = KindOf(r)
  /\ r.t = "arr" => /\ Len(v.a) = Len(r.a)
                    /\ \A n \in 1..Len(r.a) : KindsMatch(v.a[n], r.a[n])
  /\ r.t = "obj" => /\ DOMAIN v.o = DOMAIN r.o
                    /\ \A k \in DOMAIN r.o : KindsMatch(v.o[k], r.o[k])

\* Type gives neither v nor anything nested in it the kind Unknown
RECURSIVE AllKnown(_)
AllKnown(v) ==
  /\ Type(v) # ValueType.Unknown
  /\ v.t = "arr" => \A n \in 1..Len(v.a) : AllKnown(v.a[n])
  /\ v.t = "obj" => \A k \in DOMAIN v.o : AllKnown(v.o[k])

C21_TypeMatchesProduction ==
  (status = "returned" /\ result.err = NoErr)
    => /\ AllKnown(result.val)
       /\ Reference.st = "ok" => KindsMatch(result.val, Reference.v)

\* an array of a number and an object has been decoded and classified
C21_Witness ==
  /\ status = "returned" /\ result.err = NoErr /\ Reference.st = "ok"
  /\ result.val.t = "arr" /\ Len(result.val.a) = 2
  /\ Type(result.val) = ValueType.Array
  /\ Type(result.val.a[1]) = ValueType.Number
  /\ Type(result.val.a[2]) = ValueType.Object
(***************************************************************************)
(* C22.  A decode call does not depend on the calls made before on the     *)
(* same Decoder: Decode, DecodeObject or DecodeArray called a second       *)
(* time, after a success or after an error, returns what the first call    *)
(* returned.                                                               *)
(***************************************************************************)
C22_SecondCallReturnsTheSame ==
  (Done /\ prev # << >> /\ prev.entry = entry)
    => (status = "returned" /\ result = prev.result)
(***************************************************************************)
(* C23.  A Decoder on which AllocString was called returns what a Decoder  *)
(* without it returns on the same input: the same value, or the same       *)
(* error with the same Offset, and the cursor ends at the same position.   *)
(* AllocString changes neither pos nor end nor data.                       *)
(***************************************************************************)
\* the second of two calls of the same method on the same bytes is over,
\* the first made without AllocString and the second with it
BothOver == Done /\ prev # << >> /\ prev.entry = entry

C23_AllocStringKeepsOutcome ==
  (BothOver /\ ~prev.usestring /\ usestring)
    => /\ status = prev.status
       /\ result = prev.result
       /\ pos = prev.pos

C23_AllocStringKeepsCursor ==
  [][AllocString => UNCHANGED <<pos, end, data>>]_vars
(***************************************************************************)
(* C24.  What a decode call returns depends on the bytes data[0..end)      *)
(* only: two calls of the same method on the same bytes, made the same     *)
(* way, return the same value or the same error with the same Offset,      *)
(* whatever the memory after the end of the slice holds.                   *)
(***************************************************************************)
C24_OutcomeDependsOnInputOnly ==
  (BothOver /\ prev.usestring = usestring)
    => /\ status = prev.status
       /\ result = prev.result
(***************************************************************************)
(* C25.  In every state of a decode call 0 <= pos <= end: no step of a     *)
(* scanner moves the cursor past the exclusive bound end.                  *)
(***************************************************************************)
C25_CursorWithinBounds ==
  status # "ready" => (0 <= pos /\ pos <= end)
(***************************************************************************)
(* C26.  During a decode call the cursor never moves back: every step of   *)
(* the dispatcher, of the scanners and of the entry points leaves pos      *)
(* equal or larger, whether the call goes on, returns a value, returns an  *)
(* error or panics.                                                        *)
(***************************************************************************)
C26_CursorNeverDecreases == [][pos' >= pos]_vars

\* a call that went into an object and returned an error, with the cursor
\* past the bytes it read
C26_Witness ==
  /\ entry = "Decode"
  /\ family = "obj"
  /\ status = "returned"
  /\ result.err # NoErr
  /\ result.err # ErrUnexpectedEOF
  /\ pos >= 3
(***************************************************************************)
(* C27.  Whenever the dispatcher returns without error, pos is the index   *)
(* right after the last byte of the value it decoded: no byte beyond the   *)
(* value has been consumed, so pos is within the input, and for a value    *)
(* the reference reads too pos is where the reference's value ends.        *)
(***************************************************************************)
\* d.any() has returned (v, nil): to Decode, to array() or to object()
AnyReturned ==
  /\ entry = "Decode"
  /\ status = "running"
  /\ pc = "return"
  /\ ret.err = NoErr
  /\ (stack # << >> => (Head(stack).fn = "array" \/ Head(stack).st = "val"))

\* the reference's reading of the first value of the input
TopValue == RefValue(data, RefWS(data, 1), "top")

C27_CursorRightAfterValue ==
  AnyReturned
    => /\ pos <= end
       /\ (stack = << >> /\ TopValue.st = "ok") => pos = TopValue.i - 1
(***************************************************************************)
(* C28.  When the bytes after 'f', 't' or 'n' do not spell the rest of     *)
(* false, true or null, the error names the first byte that differs from   *)
(* the literal and its Offset is the 1-based position of that byte; when   *)
(* fewer bytes remain than the literal needs, the error is unexpected end  *)
(* of input.                                                               *)
(***************************************************************************)
\* the literal that starts with the byte c, and the words of its error
WordOf(c) ==
  IF c = Ch.f THEN <<Ch.f, Ch.a, Ch.l, Ch.s, Ch.e>>
  ELSE IF c = Ch.t THEN <<Ch.t, Ch.r, Ch.u, Ch.e>>
  ELSE <<Ch.n, Ch.u, Ch.l, Ch.l>>

ContextOf(c) ==
  IF c = Ch.f THEN "in literal false"
  ELSE IF c = Ch.t THEN "in literal true"
  ELSE "in literal null"

\* the input's first significant byte, at index i (from 1), opens a literal
\* that the following bytes do not spell
LiteralAt(i) == i <= Len(data) /\ data[i] \in {Ch.f, Ch.t, Ch.n}

Spelled(i) ==
  \A j \in 1..Len(WordOf(data[i])) :
    i + j - 1 <= Len(data) /\ data[i + j - 1] = WordOf(data[i])[j]

\* the index (from 1) of the first byte from i on that differs from the literal
FirstDifference(i) ==
  CHOOSE k \in i..Len(data) :
    /\ data[k] # WordOf(data[i])[k - i + 1]
    /\ \A m \in i..(k - 1) : data[m] = WordOf(data[i])[m - i + 1]

LiteralError(i) ==
  IF Len(data) - i < Len(WordOf(data[i])) - 1 THEN ErrUnexpectedEOF
  ELSE SyntaxError(data[FirstDifference(i)], ContextOf(data[i]), FirstDifference(i))

C28_LiteralErrorNamesFirstDifference ==
  (entry = "Decode" /\ Done /\ LiteralAt(RefWS(data, 1)) /\ ~Spelled(RefWS(data, 1)))
    => (status = "returned" /\ result = Ret(Nil, LiteralError(RefWS(data, 1))))
(***************************************************************************)
(* C29.  Every SyntaxError a decode call returns has the Offset -1 (the    *)
(* two predefined errors) or an Offset within 1..len(input), and in the    *)
(* second case the byte its message names is the input byte at index       *)
(* Offset - 1.                                                             *)
(***************************************************************************)
\* the call returned a *SyntaxError
ReturnedSyntaxError ==
  status = "returned" /\ result.err.kind \in {"syntax", "eof", "hexescape"}

C29_OffsetPointsAtNamedByte ==
  ReturnedSyntaxError
    => \/ result.err.off = -1
       \/ /\ result.err.kind = "syntax"
          /\ result.err.off \in 1..Len(data)
          /\ result.err.c = data[result.err.off]
(***************************************************************************)
(* C30.  Every decode call on a finite input terminates, for valid and     *)
(* invalid inputs alike: a call that has been made reaches its end, by a   *)
(* return or by a run-time panic, after finitely many scanner steps.       *)
(***************************************************************************)
C30_EveryCallTerminates == (status = "running") ~> Done

\* a call on an invalid input with an array inside an array has ended
C30_Witness ==
  /\ Done
  /\ entry = "Decode"
  /\ family = "arr"
  /\ Len(data) >= 4
  /\ data[1] = Ch.lbrack
  /\ data[2] = Ch.lbrack
  /\ result.err # NoErr
=============================================================================
